---- MODULE Spec2Model ----
(***************************************************************************)
(* A model of jumppad's process executor (pkg/clients/command.go) and of   *)
(* the exec resource provider (pkg/config/resources/exec/provider.go).     *)
(*                                                                         *)
(* Spec      one call of CommandImpl.Execute: the calling goroutine, the   *)
(*           monitoring goroutine it spawns, the timer of time.After and   *)
(*           the operating-system process behind gohup.LocalProcess.       *)
(* FairSpec  the same with the fairness of the Go scheduler and timer.     *)
(* ProvSpec  the exec provider's operations on one resource.               *)
(* HookSpec  the Process hooks of the resources of one graph, run in turn  *)
(*           while the configuration is loaded.                            *)
(* HashSpec  pkg/utils/dirhash: the walk of DirFiles over one tree, then   *)
(*           HashDir, HashZip or Hash1 on what it listed.                  *)
(***************************************************************************)
EXTENDS Integers, Sequences, FiniteSets

\* ---------------------------------------------------------------- bounds
\* c.timeout is drawn from 0..MaxTimeout timer ticks.
MaxTimeout == 2
\* gohup's Start hands out a pid in 1..MaxPid.
MaxPid == 2
\* A graph holds 1..MaxResources resources.
MaxResources == 2
\* A tree holds 1..MaxFiles files, each at most MaxDepth names below the root.
MaxFiles == 2
MaxDepth == 3

\* ------------------------------------------------------------ Execute state
VARIABLES
    config,      \* the CommandConfig argument
    timeout,     \* c.timeout, in ticks
    environ,     \* os.Environ()
    mpc,         \* where the calling goroutine is in Execute
    gpc,         \* where the monitoring goroutine is
    oEnv,        \* o.Env
    now,         \* ticks elapsed since time.After(c.timeout)
    pid,         \* var pid int        (shared, unsynchronised)
    pidfile,     \* var pidfile string (shared, unsynchronised)
    err,         \* var err error      (shared, unsynchronised)
    startRet,    \* the values lp.Start returned, before they are assigned
    s,           \* the goroutine's s of line 94
    qerr,        \* the goroutine's inner err of line 94
    proc,        \* the operating-system process
    retPid,      \* Execute's first return value
    retErr,      \* Execute's second return value
    stopCalls,   \* the pid files lp.Stop was called with by Execute, in order
    nQueries,    \* QueryStatus calls made (0, 1, or 2 for "more than one")
    sawStopped,  \* a QueryStatus reported StatusStopped without error
    lastStatus,  \* the status the last QueryStatus reported
    queryFailed, \* a QueryStatus returned an error
    queriedAfterFail, \* QueryStatus was called again after one had failed
    sends,       \* completed sends on doneCh
    startedAtTimeout \* the process had been started when the select took the timer's case

\* ----------------------------------------------------------- Provider state
VARIABLES
    cfg,         \* p.config: the Exec resource
    bound,       \* Init has bound the provider to its resource and clients
    state,       \* the ids the state store holds a record for
    containers,  \* the containers the provider created and has not removed
    op,          \* the provider operation that ran last
    ret,         \* what it returned
    warns,       \* the p.log.Warn messages it emitted, in order
    kills,       \* the pids it called p.command.Kill with, in order
    killErrs,    \* the errors those calls returned, in order
    calls,       \* the other client calls it made, in order
    lastExec,    \* what p.command.Execute returned to it, if it called Execute
    before,      \* p.config.PID as it was when that operation began
    prev,        \* the operation that ran before it: its name, whether it
                 \* failed, and p.config.PID as it was when it began
    found        \* what FindContainerIDs returned to the last operation, if
                 \* it looked for the target

\* ------------------------------------------------------- Process hook state
VARIABLES
    graph,       \* the resources of the graph, in the order they are processed
    store,       \* the state file: the ids it records, and their outputs
    done,        \* how many resources have had their Process hook run
    loads        \* the LoadState calls made in this run

\* ------------------------------------------------------------ dirhash state
VARIABLES
    tree,                \* the files under the root: relative path -> content
    dir,                 \* DirFiles' dir, cleaned
    prefix,              \* DirFiles' prefix
    ignore,              \* DirFiles' ignore globs
    todo,                \* the nodes symwalk.Walk has still to visit, in order
    ignoredDirectories,  \* DirFiles' ignoredDirectories
    files,               \* DirFiles' files
    hashed               \* the hash call made on the listed files, and its result

execVars == <<config, timeout, environ, mpc, gpc, oEnv, now, pid, pidfile, err,
              startRet, s, qerr, proc, retPid, retErr, stopCalls, nQueries,
              sawStopped, lastStatus, queryFailed, queriedAfterFail, sends,
              startedAtTimeout>>
provVars == <<cfg, bound, state, containers, op, ret, warns, kills, killErrs,
              calls,
              lastExec, before, prev, found>>
hookVars == <<graph, store, done, loads>>
hashVars == <<tree, dir, prefix, ignore, todo, ignoredDirectories, files, hashed>>
restVars == <<hookVars, hashVars>>
vars == <<execVars, provVars, restVars>>

\* ---------------------------------------------------------------- values
\* error values
Nil == "nil"
StartErr == "start failed"
QueryErr == "query failed"
ErrorCommandTimeout == "Command timed out before completing"

\* gohup.Status values
StatusRunning == "running"
StatusStopped == "stopped"
StatusNotFound == "not found"

\* The empty string, as a pid file name.
NoPidFile == <<>>

\* The pid file of process p: filepath.Join(os.TempDir(), fmt.Sprintf("%d.pid", p)).
PidFilePath(p) == <<p>>

Pids == 1..MaxPid

\* ----------------------------------------------------------------- inputs
EnvInputs == {<<>>, <<"K=v">>}
ArgInputs == {<<>>, <<"-x">>}
EnvironInputs == {<<>>, <<"PATH=/bin">>}

\* A nil slice and an empty slice both have no elements; EnvIsNil tells them apart.
ConfigInputs ==
    {c \in [Args : ArgInputs, Env : EnvInputs, EnvIsNil : BOOLEAN,
            RunInBackground : BOOLEAN] : c.EnvIsNil => c.Env = <<>>}

NoProc == [st |-> "none", pid |-> 0, env |-> <<>>, exited |-> FALSE]
NoStart == [pid |-> 0, pidfile |-> NoPidFile, err |-> Nil]

\* What a provider operation returns: its error, and for Changed and Lookup
\* their first value.
Returned(e, cause, changed, ids) ==
    [err |-> e, cause |-> cause, changed |-> changed, ids |-> ids]
Failure(e, cause) == Returned(e, cause, FALSE, <<>>)
Success == Returned(Nil, Nil, FALSE, <<>>)

\* No call of Execute was made.
NoExec == [pid |-> 0, err |-> "not called"]
NoPrev == [op |-> "none", failed |-> FALSE, before |-> 0]
\* FindContainerIDs was not called.
NoFind == [err |-> "not called", ids |-> <<>>]

ProvIdle ==
    /\ cfg = [ID |-> "resource.exec.test", Daemon |-> FALSE, Image |-> FALSE,
              Target |-> FALSE, PID |-> 0, Timeout |-> ""]
    /\ bound = FALSE
    /\ state = {}
    /\ containers = {}
    /\ op = "none"
    /\ ret = Success
    /\ warns = <<>>
    /\ kills = <<>>
    /\ killErrs = <<>>
    /\ calls = <<>>
    /\ lastExec = NoExec
    /\ before = 0
    /\ prev = NoPrev
    /\ found = NoFind

ExecInit ==
    /\ config \in ConfigInputs
    /\ timeout \in 0..MaxTimeout
    /\ environ \in EnvironInputs
    /\ mpc = "setup"
    /\ gpc = "unborn"
    /\ oEnv = <<>>
    /\ now = 0
    /\ pid = 0
    /\ pidfile = NoPidFile
    /\ err = Nil
    /\ startRet = NoStart
    /\ s = ""
    /\ qerr = Nil
    /\ proc = NoProc
    /\ retPid = 0
    /\ retErr = Nil
    /\ stopCalls = <<>>
    /\ nQueries = 0
    /\ sawStopped = FALSE
    /\ lastStatus = ""
    /\ queryFailed = FALSE
    /\ queriedAfterFail = FALSE
    /\ sends = 0
    /\ startedAtTimeout = FALSE

ExecIdle ==
    /\ ExecInit
    /\ config = [Args |-> <<>>, Env |-> <<>>, EnvIsNil |-> TRUE,
                 RunInBackground |-> FALSE]
    /\ timeout = 0
    /\ environ = <<>>

\* No graph is being loaded.
HookIdle ==
    /\ graph = <<>>
    /\ store = [ids |-> {}, val |-> <<>>]
    /\ done = 0
    /\ loads = 0

\* No hash call has been made.
NoHash == [op |-> "none", list |-> <<>>, after |-> <<>>, digest |-> <<>>, err |-> Nil]

\* No tree is being hashed.
HashIdle ==
    /\ tree = <<>>
    /\ dir = <<>>
    /\ prefix = <<>>
    /\ ignore = <<>>
    /\ todo = <<>>
    /\ ignoredDirectories = <<>>
    /\ files = <<>>
    /\ hashed = NoHash

Init == ExecInit /\ ProvIdle /\ HookIdle /\ HashIdle

\* ------------------------------------------------- Execute: calling goroutine

\* o.Env of lines 54-59: the ambient environment, and when config.Env is not
\* nil the elements of config.Args appended to it.
BuildEnv(ambient, c) ==
    IF ~c.EnvIsNil THEN ambient \o c.Args ELSE ambient

\* Lines 47-108: build the options, make doneCh, start the timer and spawn the
\* monitoring goroutine.
ExecSetup ==
    /\ mpc = "setup"
    /\ oEnv' = BuildEnv(environ, config)
    /\ mpc' = "select"
    /\ gpc' = "start"
    /\ UNCHANGED <<provVars, restVars, startedAtTimeout>>
    /\ UNCHANGED <<config, timeout, environ, now, pid, pidfile, err, startRet, s,
                   qerr, proc, retPid, retErr, stopCalls, nQueries, sawStopped,
                   lastStatus, queryFailed, queriedAfterFail, sends>>

\* The timer of time.After(c.timeout): its channel is ready once c.timeout has
\* elapsed, at once for a zero duration.
TimerFired == mpc # "setup" /\ now >= timeout

Tick ==
    /\ mpc # "setup"
    /\ now < timeout
    /\ now' = now + 1
    /\ UNCHANGED <<provVars, restVars, startedAtTimeout>>
    /\ UNCHANGED <<config, timeout, environ, mpc, gpc, oEnv, pid, pidfile, err,
                   startRet, s, qerr, proc, retPid, retErr, stopCalls, nQueries,
                   sawStopped, lastStatus, queryFailed, queriedAfterFail, sends>>

\* SelectTimeout with the timer applied to background commands only.
SelectTimeout_BackgroundOnly ==
    /\ mpc = "select"
    /\ TimerFired
    /\ config.RunInBackground
    /\ mpc' = "stop"
    /\ startedAtTimeout' = (proc.st # "none")
    /\ UNCHANGED <<provVars, restVars>>
    /\ UNCHANGED <<config, timeout, environ, gpc, oEnv, now, pid, pidfile, err,
                   startRet, s, qerr, proc, retPid, retErr, stopCalls, nQueries,
                   sawStopped, lastStatus, queryFailed, queriedAfterFail, sends>>

\* Line 111: the select takes the timer's case.
SelectTimeout ==
    /\ mpc = "select"
    /\ TimerFired
    /\ mpc' = "stop"
    /\ startedAtTimeout' = (proc.st # "none")
    /\ UNCHANGED <<provVars, restVars>>
    /\ UNCHANGED <<config, timeout, environ, gpc, oEnv, now, pid, pidfile, err,
                   startRet, s, qerr, proc, retPid, retErr, stopCalls, nQueries,
                   sawStopped, lastStatus, queryFailed, queriedAfterFail, sends>>

\* The calling goroutine reads pid and pidfile with no synchronisation with the
\* goroutine that writes them: a read yields the written value or still the
\* zero value.
RacyRead(zero, cur) == {zero, cur}

\* gohup's Stop on a pid file: the process it names, if running, is stopped.
StopProc(p, pf) ==
    IF p.st = StatusRunning /\ pf = PidFilePath(p.pid)
    THEN [p EXCEPT !.st = StatusStopped]
    ELSE p

\* Line 113: lp.Stop(pidfile).
ExecStop ==
    /\ mpc = "stop"
    /\ \E pf \in RacyRead(NoPidFile, pidfile) :
          /\ stopCalls' = Append(stopCalls, pf)
          /\ proc' = StopProc(proc, pf)
    /\ mpc' = "retTimeout"
    /\ UNCHANGED <<provVars, restVars, startedAtTimeout>>
    /\ UNCHANGED <<config, timeout, environ, gpc, oEnv, now, pid, pidfile, err,
                   startRet, s, qerr, retPid, retErr, nQueries, sawStopped,
                   lastStatus, queryFailed, queriedAfterFail, sends>>

\* Line 114: return pid, ErrorCommandTimeout.
ExecReturnTimeout ==
    /\ mpc = "retTimeout"
    /\ retPid' \in RacyRead(0, pid)
    /\ retErr' = ErrorCommandTimeout
    /\ mpc' = "done"
    /\ UNCHANGED <<provVars, restVars, startedAtTimeout>>
    /\ UNCHANGED <<config, timeout, environ, gpc, oEnv, now, pid, pidfile, err,
                   startRet, s, qerr, proc, stopCalls, nQueries, sawStopped,
                   lastStatus, queryFailed, queriedAfterFail, sends>>

\* The message the goroutine is blocked sending on doneCh, by its position.
Sending ==
    CASE gpc = "sendStartErr" -> [pid |-> 0, err |-> err]
      [] gpc = "sendQueryErr" -> [pid |-> pid, err |-> qerr]
      [] gpc = "sendFinal" -> [pid |-> pid, err |-> err]
      [] OTHER -> [pid |-> 0, err |-> Nil]

\* Where the goroutine goes on once its send has been received.
AfterSend ==
    CASE gpc = "sendStartErr" -> "chkBackground"
      [] gpc = "sendQueryErr" -> "chkStopped"
      [] gpc = "sendFinal" -> "exit"
      [] OTHER -> gpc

\* Lines 115-116: the select takes doneCh's case. doneCh is unbuffered, so the
\* goroutine's send and this receive happen together.
SelectDone ==
    /\ mpc = "select"
    /\ gpc \in {"sendStartErr", "sendQueryErr", "sendFinal"}
    /\ retPid' = Sending.pid
    /\ retErr' = Sending.err
    /\ mpc' = "done"
    /\ gpc' = AfterSend
    /\ sends' = sends + 1
    /\ UNCHANGED <<provVars, restVars, startedAtTimeout>>
    /\ UNCHANGED <<config, timeout, environ, oEnv, now, pid, pidfile, err,
                   startRet, s, qerr, proc, stopCalls, nQueries, sawStopped,
                   lastStatus, queryFailed, queriedAfterFail>>

\* ----------------------------------------------- Execute: monitoring goroutine

\* What lp.Start(o) can return: a launch failure, or a started process with its
\* pid and pid file.
StartOutcomes ==
    {[pid |-> 0, pidfile |-> NoPidFile, err |-> StartErr]}
    \cup {[pid |-> p, pidfile |-> PidFilePath(p), err |-> Nil] : p \in Pids}

\* Line 86, the call: lp.Start(o) runs and returns.
GoStart ==
    /\ gpc = "start"
    /\ \E r \in StartOutcomes :
          /\ startRet' = r
          /\ proc' = IF r.err = Nil
                     THEN [st |-> StatusRunning, pid |-> r.pid, env |-> oEnv,
                           exited |-> FALSE]
                     ELSE proc
    /\ gpc' = "assignPid"
    /\ UNCHANGED <<provVars, restVars, startedAtTimeout>>
    /\ UNCHANGED <<config, timeout, environ, mpc, oEnv, now, pid, pidfile, err,
                   s, qerr, retPid, retErr, stopCalls, nQueries, sawStopped,
                   lastStatus, queryFailed, queriedAfterFail, sends>>

\* Line 86, the assignment: pid, pidfile and err are written one after another.
GoAssign ==
    \/ /\ gpc = "assignPid"
       /\ pid' = startRet.pid
       /\ gpc' = "assignPidfile"
       /\ UNCHANGED <<pidfile, err>>
    \/ /\ gpc = "assignPidfile"
       /\ pidfile' = startRet.pidfile
       /\ gpc' = "assignErr"
       /\ UNCHANGED <<pid, err>>
    \/ /\ gpc = "assignErr"
       /\ err' = startRet.err
       /\ gpc' = "chkStartErr"
       /\ UNCHANGED <<pid, pidfile>>

GoAssignStart ==
    /\ GoAssign
    /\ UNCHANGED <<provVars, restVars, startedAtTimeout>>
    /\ UNCHANGED <<config, timeout, environ, mpc, oEnv, now, startRet, s, qerr,
                   proc, retPid, retErr, stopCalls, nQueries, sawStopped,
                   lastStatus, queryFailed, queriedAfterFail, sends>>

\* Lines 87-89: on a launch error the goroutine sends it on doneCh; there is no
\* return after the send.
GoCheckStartErr ==
    /\ gpc = "chkStartErr"
    /\ gpc' = IF err # Nil THEN "sendStartErr" ELSE "chkBackground"
    /\ UNCHANGED <<provVars, restVars, startedAtTimeout>>
    /\ UNCHANGED <<config, timeout, environ, mpc, oEnv, now, pid, pidfile, err,
                   startRet, s, qerr, proc, retPid, retErr, stopCalls, nQueries,
                   sawStopped, lastStatus, queryFailed, queriedAfterFail, sends>>

\* Line 92: if !config.RunInBackground.
GoCheckBackground ==
    /\ gpc = "chkBackground"
    /\ gpc' = IF ~config.RunInBackground THEN "query" ELSE "sendFinal"
    /\ UNCHANGED <<provVars, restVars, startedAtTimeout>>
    /\ UNCHANGED <<config, timeout, environ, mpc, oEnv, now, pid, pidfile, err,
                   startRet, s, qerr, proc, retPid, retErr, stopCalls, nQueries,
                   sawStopped, lastStatus, queryFailed, queriedAfterFail, sends>>

\* What lp.QueryStatus(pf) can return: the status of the process pf names, or
\* an error; a pid file that names no process has no running process.
QueryOutcomes(p, pf) ==
    {[s |-> StatusNotFound, err |-> QueryErr]}
    \cup (IF p.st # "none" /\ pf = PidFilePath(p.pid)
          THEN {[s |-> p.st, err |-> Nil]}
          ELSE {[s |-> StatusNotFound, err |-> Nil], [s |-> StatusStopped, err |-> Nil]})

\* Lines 94-97: s, err := lp.QueryStatus(pidfile), and on an error the send of it.
GoQuery ==
    /\ gpc = "query"
    /\ \E r \in QueryOutcomes(proc, pidfile) :
          /\ s' = r.s
          /\ qerr' = r.err
          /\ lastStatus' = r.s
          /\ sawStopped' = (sawStopped \/ (r.err = Nil /\ r.s = StatusStopped))
          /\ queryFailed' = (queryFailed \/ r.err # Nil)
          /\ gpc' = IF r.err # Nil THEN "sendQueryErr" ELSE "chkStopped"
    /\ nQueries' = IF nQueries < 2 THEN nQueries + 1 ELSE nQueries
    /\ queriedAfterFail' = (queriedAfterFail \/ queryFailed)
    /\ UNCHANGED <<provVars, restVars, startedAtTimeout>>
    /\ UNCHANGED <<config, timeout, environ, mpc, oEnv, now, pid, pidfile, err,
                   startRet, proc, retPid, retErr, stopCalls, sends>>

\* GoCheckStopped with the loop left while the process is still running.
GoCheckStopped_BreakOnRunning ==
    /\ gpc = "chkStopped"
    /\ gpc' = IF s = StatusRunning THEN "sendFinal" ELSE "sleep"
    /\ UNCHANGED <<provVars, restVars, startedAtTimeout>>
    /\ UNCHANGED <<config, timeout, environ, mpc, oEnv, now, pid, pidfile, err,
                   startRet, s, qerr, proc, retPid, retErr, stopCalls, nQueries,
                   sawStopped, lastStatus, queryFailed, queriedAfterFail, sends>>

\* Lines 99-101: if s == gohup.StatusStopped { break }.
GoCheckStopped ==
    /\ gpc = "chkStopped"
    /\ gpc' = IF s = StatusStopped THEN "sendFinal" ELSE "sleep"
    /\ UNCHANGED <<provVars, restVars, startedAtTimeout>>
    /\ UNCHANGED <<config, timeout, environ, mpc, oEnv, now, pid, pidfile, err,
                   startRet, s, qerr, proc, retPid, retErr, stopCalls, nQueries,
                   sawStopped, lastStatus, queryFailed, queriedAfterFail, sends>>

\* Line 103: time.Sleep(200 * time.Millisecond), then the next round.
GoSleep ==
    /\ gpc = "sleep"
    /\ gpc' = "query"
    /\ UNCHANGED <<provVars, restVars, startedAtTimeout>>
    /\ UNCHANGED <<config, timeout, environ, mpc, oEnv, now, pid, pidfile, err,
                   startRet, s, qerr, proc, retPid, retErr, stopCalls, nQueries,
                   sawStopped, lastStatus, queryFailed, queriedAfterFail, sends>>

\* The started command ends by itself.
ProcExit ==
    /\ proc.st = StatusRunning
    /\ proc' = [proc EXCEPT !.st = StatusStopped, !.exited = TRUE]
    /\ UNCHANGED <<provVars, restVars, startedAtTimeout>>
    /\ UNCHANGED <<config, timeout, environ, mpc, gpc, oEnv, now, pid, pidfile,
                   err, startRet, s, qerr, retPid, retErr, stopCalls, nQueries,
                   sawStopped, lastStatus, queryFailed, queriedAfterFail, sends>>

MainStep == ExecSetup \/ SelectTimeout \/ ExecStop \/ ExecReturnTimeout \/ SelectDone

GoStep ==
    \/ GoStart
    \/ GoAssignStart
    \/ GoCheckStartErr
    \/ GoCheckBackground
    \/ GoQuery
    \/ GoCheckStopped
    \/ GoSleep

ExecNext == MainStep \/ GoStep \/ Tick \/ ProcExit

Next == ExecNext

Spec == Init /\ [][Next]_vars

\* The timer fires once its duration has elapsed, and a goroutine that can take
\* a step is scheduled.
FairSpec ==
    /\ Init
    /\ [][Next]_vars
    /\ WF_vars(Tick)
    /\ WF_vars(MainStep)
    /\ WF_vars(GoStep)

\* ------------------------------------------------------------ exec provider

\* The Exec resources the provider is bound to: Image and Target say whether
\* the block is set, PID is the recorded pid, Timeout the duration string.
CfgInputs ==
    [ID : {"resource.exec.test"}, Daemon : BOOLEAN, Image : BOOLEAN,
     Target : BOOLEAN, PID : 0..MaxPid, Timeout : {"", "30s", "soon"}]

\* FindResource of the state store: whether it holds a record with this id.
FindResource(st, id) == id \in st

ProvStart ==
    /\ ExecIdle
    /\ HookIdle
    /\ HashIdle
    /\ cfg \in CfgInputs
    /\ bound = FALSE
    /\ state \in SUBSET {"resource.exec.test"}
    /\ containers = {}
    /\ op = "none"
    /\ ret = Success
    /\ warns = <<>>
    /\ kills = <<>>
    /\ killErrs = <<>>
    /\ calls = <<>>
    /\ lastExec = NoExec
    /\ before = 0
    /\ prev = NoPrev
    /\ found = NoFind

Call(fn, arg) == [fn |-> fn, arg |-> arg]

\* The bookkeeping of every provider operation: which one ran, the pid it
\* found recorded, and the operation before it.
Ran(name) ==
    /\ op' = name
    /\ before' = cfg.PID
    /\ prev' = [op |-> op, failed |-> (ret.err # Nil), before |-> before]

\* Init: binds the provider to the resource and to the generated clients.
ProviderInit ==
    /\ Ran("Init")
    /\ found' = NoFind
    /\ \E e \in {Nil, "unable to generate clients"} :
          /\ ret' = Failure(e, Nil)
          /\ bound' = (bound \/ e = Nil)
    /\ lastExec' = NoExec
    /\ warns' = <<>>
    /\ kills' = <<>>
    /\ killErrs' = <<>>
    /\ calls' = <<>>
    /\ UNCHANGED <<cfg, state, containers>>
    /\ UNCHANGED <<execVars, restVars>>

\* What p.command.Execute can return to the provider.
ExecuteOutcomes ==
    {[pid |-> p, err |-> Nil] : p \in Pids}
    \cup {[pid |-> 0, err |-> StartErr]}
    \cup {[pid |-> p, err |-> QueryErr] : p \in Pids}
    \cup {[pid |-> p, err |-> ErrorCommandTimeout] : p \in 0..MaxPid}

\* time.ParseDuration of the resource's timeout string.
ParseDuration(str) == IF str = "30s" THEN Nil ELSE "invalid duration"

\* createLocalExec: writes the script, parses the timeout, runs the script with
\* p.command.Execute. writeErr is os.WriteFile's error, out is what Execute
\* returns.
createLocalExec(c, writeErr, out) ==
    IF writeErr # Nil
    THEN [pid |-> 0, err |-> "unable to write script to file", warns |-> <<>>,
          calls |-> <<>>]
    ELSE IF c.Timeout # "" /\ ParseDuration(c.Timeout) # Nil
    THEN [pid |-> 0, err |-> "unable to parse duration for timeout",
          warns |-> <<>>, calls |-> <<>>]
    ELSE [pid |-> IF out.err # Nil THEN 0 ELSE out.pid,
          err |-> out.err,
          warns |-> IF c.Timeout # "" /\ c.Daemon
                    THEN <<"timeout will be ignored when exec is running in daemon mode">>
                    ELSE <<>>,
          calls |-> <<Call("Execute", "")>>]

\* The name of the container createRemoteExecContainer creates: the FQDN of the
\* resource.
ExecContainer == "exec.test"

\* createRemoteExecContainer: pulls the image and creates the container.
createRemoteExecContainer(pullErr, createErr) ==
    IF pullErr # Nil
    THEN [id |-> "", err |-> pullErr, calls |-> <<Call("PullImage", "")>>]
    ELSE IF createErr # Nil
    THEN [id |-> "", err |-> createErr,
          calls |-> <<Call("PullImage", ""), Call("CreateContainer", "")>>]
    ELSE [id |-> ExecContainer, err |-> Nil,
          calls |-> <<Call("PullImage", ""), Call("CreateContainer", ExecContainer)>>]

\* createRemoteExec taking the first container found when the target's name
\* resolves to several.
createRemoteExec_TakesFirstTarget(c, ctrs, pullErr, createErr, find, scriptErr) ==
    LET new == createRemoteExecContainer(pullErr, createErr)
        tgt == IF ~c.Target
               THEN [id |-> new.id,
                     err |-> IF new.err # Nil
                             THEN "unable to create container for exec" ELSE Nil,
                     calls |-> new.calls,
                     ctrs |-> IF new.err = Nil THEN ctrs \cup {new.id} ELSE ctrs]
               ELSE [id |-> IF find.err = Nil /\ Len(find.ids) > 0
                            THEN find.ids[1] ELSE "",
                     err |-> IF find.err # Nil THEN "unable to find exec target"
                             ELSE IF Len(find.ids) = 0
                             THEN "unable to find exec target name" ELSE Nil,
                     calls |-> <<Call("FindContainerIDs", "")>>,
                     ctrs |-> ctrs]
    IN  IF tgt.err # Nil
        THEN [err |-> tgt.err, calls |-> tgt.calls, ctrs |-> tgt.ctrs]
        ELSE IF scriptErr # Nil
        THEN [err |-> "unable to execute command: in remote container",
              calls |-> Append(tgt.calls, Call("ExecuteScript", tgt.id)),
              ctrs |-> tgt.ctrs]
        ELSE IF ~c.Target
        THEN [err |-> Nil,
              calls |-> tgt.calls \o <<Call("ExecuteScript", tgt.id),
                                       Call("RemoveContainer", tgt.id)>>,
              ctrs |-> tgt.ctrs \ {tgt.id}]
        ELSE [err |-> Nil,
              calls |-> Append(tgt.calls, Call("ExecuteScript", tgt.id)),
              ctrs |-> tgt.ctrs]

\* createRemoteExec: finds or creates the target container, executes the script
\* in it, and removes a container it created. find is what FindContainerIDs
\* returns, scriptErr is ExecuteScript's error.
createRemoteExec(c, ctrs, pullErr, createErr, find, scriptErr) ==
    LET new == createRemoteExecContainer(pullErr, createErr)
        tgt == IF ~c.Target
               THEN [id |-> new.id,
                     err |-> IF new.err # Nil
                             THEN "unable to create container for exec" ELSE Nil,
                     calls |-> new.calls,
                     ctrs |-> IF new.err = Nil THEN ctrs \cup {new.id} ELSE ctrs]
               ELSE [id |-> IF find.err = Nil /\ Len(find.ids) = 1
                            THEN find.ids[1] ELSE "",
                     err |-> IF find.err # Nil THEN "unable to find exec target"
                             ELSE IF Len(find.ids) # 1
                             THEN "unable to find exec target name" ELSE Nil,
                     calls |-> <<Call("FindContainerIDs", "")>>,
                     ctrs |-> ctrs]
    IN  IF tgt.err # Nil
        THEN [err |-> tgt.err, calls |-> tgt.calls, ctrs |-> tgt.ctrs]
        ELSE IF scriptErr # Nil
        THEN [err |-> "unable to execute command: in remote container",
              calls |-> Append(tgt.calls, Call("ExecuteScript", tgt.id)),
              ctrs |-> tgt.ctrs]
        ELSE IF ~c.Target
        THEN [err |-> Nil,
              calls |-> tgt.calls \o <<Call("ExecuteScript", tgt.id),
                                       Call("RemoveContainer", tgt.id)>>,
              ctrs |-> tgt.ctrs \ {tgt.id}]
        ELSE [err |-> Nil,
              calls |-> Append(tgt.calls, Call("ExecuteScript", tgt.id)),
              ctrs |-> tgt.ctrs]

\* What FindContainerIDs can return for the target's container name.
FindOutcomes ==
    {[err |-> "find failed", ids |-> <<>>]}
    \cup {[err |-> Nil, ids |-> ids] : ids \in {<<>>, <<"target">>, <<"target", "target2">>}}

\* Create, for a remote exec (a target or an image is given).
CreateRemote ==
    /\ bound
    /\ cfg.Image \/ cfg.Target
    /\ Ran("Create")
    /\ \E pullErr \in {Nil, "pull failed"}, createErr \in {Nil, "create failed"},
          find \in FindOutcomes, scriptErr \in {Nil, "script failed"} :
          LET r == createRemoteExec(cfg, containers, pullErr, createErr, find, scriptErr)
          IN  /\ ret' = IF r.err # Nil
                        THEN Failure("unable to create remote exec", r.err)
                        ELSE Success
              /\ calls' = r.calls
              /\ containers' = r.ctrs
              /\ found' = IF cfg.Target THEN find ELSE NoFind
    /\ lastExec' = NoExec
    /\ warns' = <<>>
    /\ kills' = <<>>
    /\ killErrs' = <<>>
    /\ UNCHANGED <<cfg, bound, state>>
    /\ UNCHANGED <<execVars, restVars>>

\* Create, for a local exec, recording the pid Execute returned whether or not
\* Execute returned an error.
CreateLocal_RecordsPidOnError ==
    /\ bound
    /\ ~(cfg.Image \/ cfg.Target)
    /\ Ran("Create")
    /\ found' = NoFind
    /\ \E writeErr \in {Nil, "write failed"}, out \in ExecuteOutcomes :
          LET r == createLocalExec(cfg, writeErr, out)
          IN  /\ ret' = IF r.err # Nil
                        THEN Failure("unable to create local exec", r.err)
                        ELSE Success
              /\ cfg' = IF r.calls = <<>> THEN cfg ELSE [cfg EXCEPT !.PID = out.pid]
              /\ warns' = r.warns
              /\ calls' = r.calls
              /\ lastExec' = IF r.calls = <<>> THEN NoExec ELSE out
    /\ kills' = <<>>
    /\ killErrs' = <<>>
    /\ UNCHANGED <<bound, state, containers>>
    /\ UNCHANGED <<execVars, restVars>>

\* Create, for a local exec: the pid of the started process is recorded.
CreateLocal ==
    /\ bound
    /\ ~(cfg.Image \/ cfg.Target)
    /\ Ran("Create")
    /\ found' = NoFind
    /\ \E writeErr \in {Nil, "write failed"}, out \in ExecuteOutcomes :
          LET r == createLocalExec(cfg, writeErr, out)
          IN  /\ ret' = IF r.err # Nil
                        THEN Failure("unable to create local exec", r.err)
                        ELSE Success
              /\ cfg' = IF r.err # Nil THEN cfg ELSE [cfg EXCEPT !.PID = r.pid]
              /\ warns' = r.warns
              /\ calls' = r.calls
              /\ lastExec' = IF r.calls = <<>> THEN NoExec ELSE out
    /\ kills' = <<>>
    /\ killErrs' = <<>>
    /\ UNCHANGED <<bound, state, containers>>
    /\ UNCHANGED <<execVars, restVars>>

\* Kill of the command client: lp.Stop on the pid file of pid p, whose error it
\* returns; stopping a process that has stopped or is gone may be an error.
KillOutcomes(p) == {Nil, "stop failed"}

\* Whether Destroy has a local daemon to stop.
IsLocalDaemon(c) == c.Daemon /\ ~c.Image /\ ~c.Target

\* Destroy with the pid check off by one: pid 0 is passed to Kill.
Destroy_KillsPidZero ==
    /\ bound
    /\ Ran("Destroy")
    /\ found' = NoFind
    /\ ret' = Success
    /\ calls' = <<>>
    /\ lastExec' = NoExec
    /\ IF IsLocalDaemon(cfg)
       THEN IF cfg.PID < 0
            THEN /\ warns' = <<"unable to stop local process, no pid">>
                 /\ kills' = <<>>
                 /\ killErrs' = <<>>
            ELSE /\ kills' = <<cfg.PID>>
                 /\ \E killErr \in KillOutcomes(cfg.PID) :
                       /\ killErrs' = <<killErr>>
                       /\ warns' = IF killErr # Nil
                                   THEN <<"error cleaning up daemonized process">>
                                   ELSE <<>>
       ELSE /\ warns' = <<>>
            /\ kills' = <<>>
            /\ killErrs' = <<>>
    /\ UNCHANGED <<cfg, bound, state, containers>>
    /\ UNCHANGED <<execVars, restVars>>

\* Destroy with the error of Kill returned to the caller.
Destroy_ReturnsKillError ==
    /\ bound
    /\ Ran("Destroy")
    /\ found' = NoFind
    /\ calls' = <<>>
    /\ lastExec' = NoExec
    /\ IF IsLocalDaemon(cfg)
       THEN IF cfg.PID < 1
            THEN /\ warns' = <<"unable to stop local process, no pid">>
                 /\ kills' = <<>>
                 /\ killErrs' = <<>>
                 /\ ret' = Success
            ELSE /\ kills' = <<cfg.PID>>
                 /\ \E killErr \in KillOutcomes(cfg.PID) :
                       /\ killErrs' = <<killErr>>
                       /\ warns' = <<>>
                       /\ ret' = IF killErr # Nil
                                 THEN Failure("error cleaning up daemonized process", killErr)
                                 ELSE Success
       ELSE /\ warns' = <<>>
            /\ kills' = <<>>
            /\ killErrs' = <<>>
            /\ ret' = Success
    /\ UNCHANGED <<cfg, bound, state, containers>>
    /\ UNCHANGED <<execVars, restVars>>

\* Destroy: a local daemon is killed by its recorded pid; an error of Kill is
\* logged and not returned.
Destroy ==
    /\ bound
    /\ Ran("Destroy")
    /\ found' = NoFind
    /\ ret' = Success
    /\ calls' = <<>>
    /\ lastExec' = NoExec
    /\ IF IsLocalDaemon(cfg)
       THEN IF cfg.PID < 1
            THEN /\ warns' = <<"unable to stop local process, no pid">>
                 /\ kills' = <<>>
                 /\ killErrs' = <<>>
            ELSE /\ kills' = <<cfg.PID>>
                 /\ \E killErr \in KillOutcomes(cfg.PID) :
                       /\ killErrs' = <<killErr>>
                       /\ warns' = IF killErr # Nil
                                   THEN <<"error cleaning up daemonized process">>
                                   ELSE <<>>
       ELSE /\ warns' = <<>>
            /\ kills' = <<>>
            /\ killErrs' = <<>>
    /\ UNCHANGED <<cfg, bound, state, containers>>
    /\ UNCHANGED <<execVars, restVars>>

\* Lookup exposing the recorded pid as an id.
Lookup_ReturnsPid ==
    /\ bound
    /\ Ran("Lookup")
    /\ found' = NoFind
    /\ ret' = Returned(Nil, Nil, FALSE, <<cfg.PID>>)
    /\ warns' = <<>>
    /\ kills' = <<>>
    /\ killErrs' = <<>>
    /\ calls' = <<>>
    /\ lastExec' = NoExec
    /\ UNCHANGED <<cfg, bound, state, containers>>
    /\ UNCHANGED <<execVars, restVars>>

\* Lookup: nothing to expose.
Lookup ==
    /\ bound
    /\ Ran("Lookup")
    /\ found' = NoFind
    /\ ret' = Returned(Nil, Nil, FALSE, <<>>)
    /\ warns' = <<>>
    /\ kills' = <<>>
    /\ killErrs' = <<>>
    /\ calls' = <<>>
    /\ lastExec' = NoExec
    /\ UNCHANGED <<cfg, bound, state, containers>>
    /\ UNCHANGED <<execVars, restVars>>

\* Refresh: logs only.
Refresh ==
    /\ bound
    /\ Ran("Refresh")
    /\ found' = NoFind
    /\ ret' = Success
    /\ warns' = <<>>
    /\ kills' = <<>>
    /\ killErrs' = <<>>
    /\ calls' = <<>>
    /\ lastExec' = NoExec
    /\ UNCHANGED <<cfg, bound, state, containers>>
    /\ UNCHANGED <<execVars, restVars>>

\* Changed: return false, nil.
Changed ==
    /\ bound
    /\ Ran("Changed")
    /\ found' = NoFind
    /\ ret' = Returned(Nil, Nil, FALSE, <<>>)
    /\ warns' = <<>>
    /\ kills' = <<>>
    /\ killErrs' = <<>>
    /\ calls' = <<>>
    /\ lastExec' = NoExec
    /\ UNCHANGED <<cfg, bound, state, containers>>
    /\ UNCHANGED <<execVars, restVars>>

ProvNext ==
    \/ ProviderInit
    \/ CreateRemote
    \/ CreateLocal
    \/ Destroy
    \/ Lookup
    \/ Refresh
    \/ Changed

ProvSpec == ProvStart /\ [][ProvNext]_vars

\* ------------------------------------------------------------ Process hooks

Kinds == {"random_uuid", "nomad_job", "exec"}

\* The output a resource kind computes (RandomUUID.Value, NomadJob.JobChecksums,
\* Exec.PID): its zero value, a value set in memory, and a recorded value.
ZeroOut(kind) ==
    CASE kind = "random_uuid" -> ""
      [] kind = "nomad_job" -> <<>>
      [] OTHER -> 0
MemOut(kind) ==
    CASE kind = "random_uuid" -> "uuid-in-memory"
      [] kind = "nomad_job" -> <<"h1:in-memory">>
      [] OTHER -> 7
RecOut(kind) ==
    CASE kind = "random_uuid" -> "uuid-recorded"
      [] kind = "nomad_job" -> <<"h1:recorded">>
      [] OTHER -> 42

\* The id of the i-th resource of the graph: unique, and it names the kind.
ResourceID(kind, i) == <<kind, i>>

\* The resources that can stand at place i of a graph. remote (an Image or a
\* Target is set) and mounts (Volumes or Networks are set) are fields of Exec;
\* absolute tells whether the paths have been made absolute. was, loadErr and
\* ret record what the resource's Process hook found and returned.
ResourcesAt(i) ==
    UNION {{[kind |-> k, id |-> ResourceID(k, i), out |-> o,
             remote |-> r, mounts |-> m, absolute |-> FALSE,
             was |-> o, loadErr |-> "not called", ret |-> "not run"] :
                o \in {ZeroOut(k), MemOut(k)},
                r \in IF k = "exec" THEN BOOLEAN ELSE {FALSE},
                m \in IF k = "exec" THEN BOOLEAN ELSE {FALSE}} : k \in Kinds}

GraphInputs ==
    UNION {{g \in [1..n -> UNION {ResourcesAt(i) : i \in 1..n}] :
                \A i \in 1..n : g[i] \in ResourcesAt(i)} : n \in 1..MaxResources}

\* The state files a run over graph g can find: any of its resources recorded,
\* each with its recorded output.
StoreInputs(g) ==
    {[ids |-> ids, val |-> [id \in ids |-> RecOut(id[1])]] :
        ids \in SUBSET {g[i].id : i \in 1..Len(g)}}

HookStart ==
    /\ ExecIdle
    /\ ProvIdle
    /\ HashIdle
    /\ graph \in GraphInputs
    /\ store \in StoreInputs(graph)
    /\ done = 0
    /\ loads = 0

\* What LoadState can return: the state on disk, or an error.
LoadOutcomes(st) == {[err |-> Nil, cfg |-> st], [err |-> "unable to load state", cfg |-> st]}

\* RandomUUID.Process with the value cleared when the state has no record.
RandomUUID_Process_ClearsWhenMissing(c, load) ==
    IF load.err = Nil
    THEN IF FindResource(load.cfg.ids, c.id)
         THEN [c EXCEPT !.out = load.cfg.val[c.id], !.ret = Nil]
         ELSE [c EXCEPT !.out = ZeroOut(c.kind), !.ret = Nil]
    ELSE [c EXCEPT !.ret = Nil]

\* RandomUUID.Process: the value of the record with the resource's id, if the
\* state loads and holds one.
RandomUUID_Process(c, load) ==
    IF load.err = Nil /\ FindResource(load.cfg.ids, c.id)
    THEN [c EXCEPT !.out = load.cfg.val[c.id], !.ret = Nil]
    ELSE [c EXCEPT !.ret = Nil]

\* NomadJob.Process: the paths are made absolute, then the checksums of the
\* record with the resource's id, if the state loads and holds one.
NomadJob_Process(n, load) ==
    LET abs == [n EXCEPT !.absolute = TRUE]
    IN  IF load.err = Nil /\ FindResource(load.cfg.ids, n.id)
        THEN [abs EXCEPT !.out = load.cfg.val[n.id], !.ret = Nil]
        ELSE [abs EXCEPT !.ret = Nil]

\* Whether Exec.Process rejects the resource: volumes or networks on a local exec.
ExecInvalid(e) == ~e.remote /\ e.mounts

\* Exec.Process on a valid resource: the volume sources of a remote exec are
\* made absolute, then the pid of the record with the resource's id.
Exec_Process(e, load) ==
    LET abs == [e EXCEPT !.absolute = e.remote]
    IN  IF load.err = Nil /\ FindResource(load.cfg.ids, e.id)
        THEN [abs EXCEPT !.out = load.cfg.val[e.id], !.ret = Nil]
        ELSE [abs EXCEPT !.ret = Nil]

\* The resource whose hook runs next.
Current == graph[done + 1]

\* A hook ran on the current resource, calling LoadState once.
Processed(r, load) ==
    /\ graph' = [graph EXCEPT ![done + 1] = [r EXCEPT !.was = Current.out,
                                                      !.loadErr = load.err]]
    /\ done' = done + 1
    /\ loads' = loads + 1
    /\ UNCHANGED store
    /\ UNCHANGED <<execVars, provVars, hashVars>>

ProcessRandomUUID ==
    /\ done < Len(graph)
    /\ Current.kind = "random_uuid"
    /\ \E load \in LoadOutcomes(store) : Processed(RandomUUID_Process(Current, load), load)

ProcessNomadJob ==
    /\ done < Len(graph)
    /\ Current.kind = "nomad_job"
    /\ \E load \in LoadOutcomes(store) : Processed(NomadJob_Process(Current, load), load)

ProcessExec ==
    /\ done < Len(graph)
    /\ Current.kind = "exec"
    /\ ~ExecInvalid(Current)
    /\ \E load \in LoadOutcomes(store) : Processed(Exec_Process(Current, load), load)

\* Exec.Process on a local exec with volumes or networks: an error, before the
\* state is looked at.
ProcessExecInvalid ==
    /\ done < Len(graph)
    /\ Current.kind = "exec"
    /\ ExecInvalid(Current)
    /\ graph' = [graph EXCEPT ![done + 1].ret = "volumes and networks need a remote exec"]
    /\ done' = done + 1
    /\ UNCHANGED <<store, loads>>
    /\ UNCHANGED <<execVars, provVars, hashVars>>

HookNext == ProcessRandomUUID \/ ProcessNomadJob \/ ProcessExec \/ ProcessExecInvalid

HookSpec == HookStart /\ [][HookNext]_vars


\* ----------------------------------------------------------------- dirhash

\* File and directory names; paths and globs are strings over these
\* characters, "/" and "*", kept as sequences of characters.
Names == {<<"a">>, <<"b">>, <<"a", "b">>}

\* The byte value of a character, by which sort.Strings orders strings.
Rank(ch) ==
    CASE ch = "*" -> 42
      [] ch = "." -> 46
      [] ch = "/" -> 47
      [] ch = "a" -> 97
      [] ch = "b" -> 98
      [] ch = "d" -> 100
      [] OTHER -> 112

\* s < t for strings: byte by byte, a proper prefix first.
RECURSIVE Less(_, _)
Less(x, y) ==
    IF y = <<>> THEN FALSE
    ELSE IF x = <<>> THEN TRUE
    ELSE IF Head(x) = Head(y) THEN Less(Tail(x), Tail(y))
    ELSE Rank(Head(x)) < Rank(Head(y))

Remove(list, i) == SubSeq(list, 1, i - 1) \o SubSeq(list, i + 1, Len(list))

\* sort.Strings
RECURSIVE SortStrings(_)
SortStrings(list) ==
    IF list = <<>> THEN <<>>
    ELSE LET m == CHOOSE i \in 1..Len(list) :
                      \A j \in 1..Len(list) : ~Less(list[j], list[i])
         IN  <<list[m]>> \o SortStrings(Remove(list, m))

\* strings.HasPrefix and strings.TrimPrefix
HasPrefix(str, pre) == Len(pre) <= Len(str) /\ SubSeq(str, 1, Len(pre)) = pre
TrimPrefix(str, pre) == IF HasPrefix(str, pre) THEN SubSeq(str, Len(pre) + 1, Len(str)) ELSE str

\* filepath.Join of two elements, the second possibly starting with a
\* separator: empty elements are dropped and the result is cleaned.
FilepathJoin(x, y) ==
    LET rest == IF y # <<>> /\ Head(y) = "/" THEN Tail(y) ELSE y
    IN  IF x = <<>> \/ x = <<".">> THEN rest ELSE x \o <<"/">> \o rest

\* glob.Glob: "*" in the pattern stands for any run of characters.
RECURSIVE Glob(_, _)
Glob(pattern, subj) ==
    IF pattern = <<>> THEN subj = <<>>
    ELSE IF Head(pattern) = "*"
         THEN Glob(Tail(pattern), subj) \/ (subj # <<>> /\ Glob(pattern, Tail(subj)))
         ELSE subj # <<>> /\ Head(subj) = Head(pattern) /\ Glob(Tail(pattern), Tail(subj))

\* A path relative to the root, as the sequence of its names, and as a string.
\* The directories of the trees are a, a/a, ...; a file has either name.
RelPaths == {[i \in 1..n |-> IF i < n THEN <<"a">> ELSE x] : n \in 1..MaxDepth, x \in Names}

RECURSIVE Slashed(_)
Slashed(rel) ==
    IF rel = <<>> THEN <<>>
    ELSE IF Len(rel) = 1 THEN rel[1]
    ELSE rel[1] \o <<"/">> \o Slashed(Tail(rel))

IsProperPrefix(x, y) == Len(x) < Len(y) /\ SubSeq(y, 1, Len(x)) = x

\* The trees: 1..MaxFiles files, no file standing where another file needs a
\* directory; the files of one name have one content (0 is the empty content).
Contents == {0, 1}
FileSets ==
    {F \in {{f[i] : i \in 1..MaxFiles} : f \in [1..MaxFiles -> RelPaths]} :
        \A x \in F, y \in F : ~IsProperPrefix(x, y)}
TreeInputs == {[f \in F |-> c[f[Len(f)]]] : F \in FileSets, c \in [Names -> Contents]}

\* The directories of a tree, the root (the empty relative path) among them.
Directories(tr) == UNION {{SubSeq(f, 1, n) : n \in 0..(Len(f) - 1)} : f \in DOMAIN tr}

\* The path symwalk.Walk hands to the callback for a node of the tree under d:
\* filepath.Join(d, rel), which for d = "." is the bare relative path.
WalkPath(d, rel) == IF rel = <<>> THEN d ELSE FilepathJoin(d, Slashed(rel))

Node(d, tr, rel) == [rel |-> rel, file |-> WalkPath(d, rel), isDir |-> rel \notin DOMAIN tr]

\* The order of the walk: a directory before its entries, entries by name.
RECURSIVE Before(_, _)
Before(x, y) ==
    IF y = <<>> THEN FALSE
    ELSE IF x = <<>> THEN TRUE
    ELSE IF Head(x) = Head(y) THEN Before(Tail(x), Tail(y))
    ELSE Less(Head(x), Head(y))

RECURSIVE WalkOrder(_)
WalkOrder(rels) ==
    IF rels = {} THEN <<>>
    ELSE LET m == CHOOSE x \in rels : \A y \in rels : ~Before(y, x)
         IN  <<m>> \o WalkOrder(rels \ {m})

Walk(d, tr) ==
    LET order == WalkOrder(DOMAIN tr \cup Directories(tr))
    IN  [i \in 1..Len(order) |-> Node(d, tr, order[i])]

DirInputs == {<<".">>, <<"d">>}
PrefixInputs == {<<>>, <<"p">>}
\* The ignore lists: none, and lists of the globs a, */a, d/a and .*
IgnoreInputs ==
    {<<>>, << <<"a">> >>, << <<"*", "/", "a">> >>, << <<"d", "/", "a">> >>,
     << <<".", "*">> >>, << <<"d", "/", "b">>, <<"*", "/", "a">> >>}

HashStart ==
    /\ ExecIdle
    /\ ProvIdle
    /\ HookIdle
    /\ tree \in TreeInputs
    /\ dir \in DirInputs
    /\ prefix \in PrefixInputs
    /\ ignore \in IgnoreInputs
    /\ todo = Walk(dir, tree)
    /\ ignoredDirectories = <<>>
    /\ files = <<>>
    /\ hashed = NoHash

\* Whether a path matches one of the ignore globs.
Ignored(file) == \E i \in 1..Len(ignore) : Glob(ignore[i], file)

\* Whether a path has one of the ignored directories as a prefix.
UnderIgnored(file) ==
    \E i \in 1..Len(ignoredDirectories) : HasPrefix(file, ignoredDirectories[i])

\* The name DirFiles gives the file at a walk path: the root replaced by prefix.
ListedAs(file) ==
    LET rel == IF dir # <<".">> THEN SubSeq(file, Len(dir) + 2, Len(file)) ELSE file
    IN  FilepathJoin(prefix, rel)

\* The walk visited its next node; DirFiles' callback returned nil.
Visited ==
    /\ todo' = Tail(todo)
    /\ UNCHANGED <<tree, dir, prefix, ignore, hashed>>
    /\ UNCHANGED <<execVars, provVars, hookVars>>

\* The callback on a path that matches an ignore glob.
WalkIgnored ==
    /\ todo # <<>>
    /\ Ignored(Head(todo).file)
    /\ ignoredDirectories' = IF Head(todo).isDir
                             THEN Append(ignoredDirectories, Head(todo).file)
                             ELSE ignoredDirectories
    /\ UNCHANGED files
    /\ Visited

\* The callback on a directory that matches no glob.
WalkDirectory ==
    /\ todo # <<>>
    /\ ~Ignored(Head(todo).file)
    /\ Head(todo).isDir
    /\ UNCHANGED <<ignoredDirectories, files>>
    /\ Visited

\* The callback on a file that matches no glob, below an ignored directory.
WalkUnderIgnored ==
    /\ todo # <<>>
    /\ ~Ignored(Head(todo).file)
    /\ ~Head(todo).isDir
    /\ UnderIgnored(Head(todo).file)
    /\ UNCHANGED <<ignoredDirectories, files>>
    /\ Visited

\* The callback on a file that is listed.
WalkListed ==
    /\ todo # <<>>
    /\ ~Ignored(Head(todo).file)
    /\ ~Head(todo).isDir
    /\ ~UnderIgnored(Head(todo).file)
    /\ files' = Append(files, ListedAs(Head(todo).file))
    /\ UNCHANGED ignoredDirectories
    /\ Visited

\* HashDir's osOpen: the file at filepath.Join(dir, TrimPrefix(name, prefix)).
OsOpenFile(name) ==
    LET path == FilepathJoin(dir, TrimPrefix(name, prefix))
        hits == {f \in DOMAIN tree : WalkPath(dir, f) = path}
    IN  IF hits = {} THEN [err |-> "no such file", content |-> 0]
        ELSE [err |-> Nil, content |-> tree[CHOOSE f \in hits : TRUE]]

\* osOpen as Hash1 receives it: a function of the name.
OsOpen == [name \in {files[i] : i \in 1..Len(files)} |-> OsOpenFile(name)]

\* What a hash call returns: the digest, the error, and the caller's list as
\* the call leaves it.
HashResult(digest, e, list) == [digest |-> digest, err |-> e, files |-> list]

\* The summary Hash1 hashes: for each name in turn a line of the hash of the
\* file's content and the name. SHA-256 is taken to have no collisions: the
\* hash of a content stands for the content, the digest for the summary.
Summary(list, open) == [i \in 1..Len(list) |-> <<open[list[i]].content, list[i]>>]

\* Hash1 without the sort.
Hash1_Unsorted(list, open) ==
    LET errs == {i \in 1..Len(list) : open[list[i]].err # Nil}
    IN  IF errs # {}
        THEN HashResult(<<>>, open[list[CHOOSE i \in errs : \A j \in errs : i <= j]].err, list)
        ELSE HashResult(<<"h1:", Summary(list, open)>>, Nil, list)

\* Hash1: a copy of the list is sorted, each file opened (open maps a name to
\* what opening it gives) and hashed in that order; the first failure to open
\* is returned.
Hash1(list, open) ==
    LET sorted == SortStrings(list)
        errs == {i \in 1..Len(sorted) : open[sorted[i]].err # Nil}
    IN  IF errs # {}
        THEN HashResult(<<>>, open[sorted[CHOOSE i \in errs : \A j \in errs : i <= j]].err, list)
        ELSE HashResult(<<"h1:", Summary(sorted, open)>>, Nil, list)

\* The hash call made, with its arguments and what it returned.
Hashed(name, list, r) ==
    /\ hashed' = [op |-> name, list |-> list, after |-> r.files, digest |-> r.digest,
                  err |-> r.err]
    /\ UNCHANGED <<tree, dir, prefix, ignore, todo, ignoredDirectories, files>>
    /\ UNCHANGED <<execVars, provVars, hookVars>>

\* HashDir, once DirFiles has returned.
HashDir ==
    /\ todo = <<>>
    /\ hashed = NoHash
    /\ Hashed("HashDir", files, Hash1(files, OsOpen))

Perms(S) == {f \in [1..Cardinality(S) -> S] : \A x \in S : \E i \in DOMAIN f : f[i] = x}

\* Hash1 on the listed files in any order.
Hash1Reordered ==
    /\ todo = <<>>
    /\ hashed = NoHash
    /\ \E list \in Perms({files[i] : i \in 1..Len(files)}) :
          Hashed("Hash1", list, Hash1(list, OsOpen))

\* The archives that hold the files of the tree under their listed names: the
\* files in any order, alone or with an entry for one of the directories.
FileEntries ==
    {[name |-> FilepathJoin(prefix, Slashed(f)), content |-> tree[f]] : f \in DOMAIN tree}
DirectoryEntries ==
    {[name |-> FilepathJoin(prefix, Slashed(d)) \o <<"/">>, content |-> 0] :
        d \in Directories(tree) \ {<<>>}}
Archives ==
    UNION {Perms(FileEntries \cup D) : D \in {{}} \cup {{d} : d \in DirectoryEntries}}

\* HashZip: every entry's name is listed, and opened from the archive.
HashZipOf(z) ==
    LET names == [i \in 1..Len(z) |-> z[i].name]
        zfiles == [name \in {z[i].name : i \in 1..Len(z)} |->
                      z[CHOOSE i \in 1..Len(z) :
                            /\ z[i].name = name
                            /\ \A j \in 1..Len(z) : z[j].name = name => j <= i]]
        zipOpen == [name \in {names[i] : i \in 1..Len(names)} |->
                       IF name \notin DOMAIN zfiles
                       THEN [err |-> "not found in zip", content |-> 0]
                       ELSE [err |-> Nil, content |-> zfiles[name].content]]
    IN  Hash1(names, zipOpen)

\* HashZip on an archive of the tree, once a DirFiles that was given no ignore
\* globs has listed the tree.
HashZip ==
    /\ todo = <<>>
    /\ hashed = NoHash
    /\ ignore = <<>>
    /\ \E z \in Archives :
          Hashed("HashZip", [i \in 1..Len(z) |-> z[i].name], HashZipOf(z))

HashNext ==
    \/ WalkIgnored
    \/ WalkDirectory
    \/ WalkUnderIgnored
    \/ WalkListed
    \/ HashDir
    \/ Hash1Reordered
    \/ HashZip

HashSpec == HashStart /\ [][HashNext]_vars

\* ------------------------------------------------------------------ claims

ExecuteReturned == mpc = "done"
Foreground == ~config.RunInBackground

\* C1: when Execute, with a positive timeout, returns ErrorCommandTimeout for a
\* process that had started when the timer's case was taken, the returned pid
\* is not zero and Stop was called once, on that process's pid file.
C1_TimeoutStopsStartedProcess ==
    (timeout > 0 /\ ExecuteReturned /\ retErr = ErrorCommandTimeout /\ startedAtTimeout)
        => (retPid # 0 /\ stopCalls = <<PidFilePath(proc.pid)>>)

\* C2: with RunInBackground set and a positive timeout, Execute never stops
\* the process, never polls its status and never returns ErrorCommandTimeout; a
\* nil error comes with the pid Start returned.
C2_BackgroundIgnoresTimeout ==
    (config.RunInBackground /\ timeout > 0)
        => /\ stopCalls = <<>>
           /\ nQueries = 0
           /\ ExecuteReturned => /\ retErr # ErrorCommandTimeout
                                 /\ retErr = Nil => retPid = startRet.pid

\* C3: Changed() returns true for a resource the state store holds no record of.
C3_ChangedWithoutRecord ==
    (op = "Changed" /\ ~FindResource(state, cfg.ID)) => ret.changed

\* C4: with a zero timeout a foreground Execute never takes the timeout path:
\* it never stops the process, and it returns only a launch error, a status
\* error, or nil after the process was reported stopped.
C4_ZeroTimeoutNeverTimesOut ==
    (timeout = 0 /\ Foreground)
        => /\ stopCalls = <<>>
           /\ ExecuteReturned => \/ retErr \in {StartErr, QueryErr}
                                 \/ retErr = Nil /\ sawStopped

\* C5: the environment of the started process is the ambient environment
\* followed by the entries of config.Env.
C5_EnvIsAmbientPlusConfigEnv ==
    proc.st # "none" => proc.env = environ \o config.Env

\* C6: when Execute, with a positive timeout, returns a launch error, Stop was
\* not called and no status query is ever made for the process that was never
\* started.
C6_LaunchFailureStopsThere ==
    (timeout > 0 /\ ExecuteReturned /\ retErr = StartErr)
        => (stopCalls = <<>> /\ nQueries = 0)

\* C7: with a positive timeout, a status-query error is returned with the pid
\* Start returned, and after a failed QueryStatus no further QueryStatus is
\* called.
C7_QueryFailureNotRetried ==
    timeout > 0
        => /\ (ExecuteReturned /\ retErr = QueryErr) => retPid = startRet.pid
           /\ ~queriedAfterFail

\* C8: a foreground Execute returns a nil error only after a status query
\* reported the process stopped, and that is the last status observed.
C8_NilOnlyAfterStopped ==
    (ExecuteReturned /\ Foreground /\ retErr = Nil)
        => (sawStopped /\ lastStatus = StatusStopped /\ retPid = startRet.pid)

C8_Witness ==
    /\ ExecuteReturned /\ Foreground /\ retErr = Nil
    /\ nQueries = 2
    /\ timeout > 0
    /\ now = timeout

\* The foreground process started and did not end by itself.
NeverStops == Foreground /\ proc.st # "none" /\ ~proc.exited

\* C9, as the spec states it: with a positive timeout, a foreground Execute of
\* a process that never stops returns ErrorCommandTimeout.
C9_NeverStoppingReturnsTimeout ==
    (ExecuteReturned /\ timeout > 0 /\ NeverStops) => retErr = ErrorCommandTimeout

\* C9, amended: every Execute call returns; with a positive timeout, a
\* foreground Execute of a process that never stops returns
\* ErrorCommandTimeout, or the error of a status query that failed.
C9_ReturnsByTimeout ==
    /\ <>ExecuteReturned
    /\ []((ExecuteReturned /\ timeout > 0 /\ NeverStops)
            => \/ retErr = ErrorCommandTimeout
               \/ retErr = QueryErr /\ queryFailed)

C9_Witness ==
    /\ ExecuteReturned /\ timeout > 0 /\ NeverStops
    /\ retErr = ErrorCommandTimeout
    /\ nQueries = 2
    /\ ~queryFailed

C11_DestroyIsLenient ==
    op = "Destroy"
        => /\ ret.err = Nil
           /\ Len(killErrs) = Len(kills)
           /\ killErrs = <<"stop failed">>
                 => warns = <<"error cleaning up daemonized process">>
           /\ prev.op = "Destroy" => ~prev.failed

C11_Witness ==
    /\ op = "Destroy" /\ prev.op = "Destroy"
    /\ kills = <<cfg.PID>>
    /\ killErrs = <<"stop failed">>
    /\ ret.err = Nil

\* The resources whose Process hook has run.
ProcessedResources == {graph[i] : i \in 1..done}

\* Whether the state on disk holds a record with the id of resource r.
Recorded(r) == FindResource(store.ids, r.id)

\* C12: a run of the Process hook over the resources of a graph causes at most
\* one LoadState call.
C12_StateLoadedOncePerRun == loads <= 1

\* C13 as stated: a processed resource with a record in a loadable state has the
\* recorded output; one without a record, or whose state failed to load, has
\* the output it had and its hook returned no error.
C13_ProcessRehydratesOrLeaves ==
    \A r \in ProcessedResources :
        /\ Recorded(r) /\ r.loadErr # "unable to load state" => r.out = store.val[r.id]
        /\ ~Recorded(r) \/ r.loadErr = "unable to load state"
              => r.out = r.was /\ r.ret = Nil

\* C13: the hook of a resource that passes validation returns no error and
\* has set the output to the recorded value when the state loaded and holds a
\* record with its id, and left it alone otherwise; the hook of a local exec
\* with volumes or networks returns an error and leaves the output alone.
C13_ValidResourceRehydratesOrLeaves ==
    \A r \in ProcessedResources :
        IF ExecInvalid(r)
        THEN r.ret # Nil /\ r.out = r.was
        ELSE /\ r.ret = Nil
             /\ r.out = IF r.loadErr = Nil /\ Recorded(r) THEN store.val[r.id] ELSE r.was

C13_Witness ==
    /\ done = Len(graph)
    /\ \E r \in ProcessedResources :
          Recorded(r) /\ r.loadErr = Nil /\ r.was = MemOut(r.kind) /\ r.out = RecOut(r.kind)
    /\ \E r \in ProcessedResources :
          ~Recorded(r) /\ r.loadErr = Nil /\ r.ret = Nil /\ r.out = MemOut(r.kind)

\* The names DirFiles has listed.
Listed == {files[i] : i \in 1..Len(files)}

\* The name under which DirFiles lists the file at a relative path.
ListName(rel) == FilepathJoin(prefix, Slashed(rel))

\* Whether directory d of the tree is matched by an ignore glob.
IgnoredDirectory(d) == d \in Directories(tree) /\ Ignored(WalkPath(dir, d))

\* C14: no file beneath a directory whose path matches an ignore glob is
\* listed, whatever the file's own path and depth.
C14_IgnoredDirectoryIsTransitive ==
    \A f \in DOMAIN tree : \A n \in 0..(Len(f) - 1) :
        IgnoredDirectory(SubSeq(f, 1, n)) => ListName(f) \notin Listed

\* C15: Hash1 on the listed files in any order returns the digest it returns
\* on them in the order listed, without an error, and leaves the list it was
\* handed in the order it was handed.
C15_Hash1IgnoresOrder ==
    hashed.op = "Hash1"
        => /\ hashed.err = Nil
           /\ hashed.digest = Hash1(files, OsOpen).digest
           /\ hashed.after = hashed.list

C15_Witness ==
    /\ hashed.op = "Hash1"
    /\ Len(hashed.list) > 1
    /\ hashed.list # files
    /\ hashed.list # SortStrings(hashed.list)
    /\ hashed.digest # <<>>

\* C16: HashZip on an archive of the files of a tree, under the names HashDir
\* gives them, returns HashDir's digest of the tree, whatever the order of the
\* entries and whether or not the archive has an entry for a directory.
C16_HashZipEqualsHashDir ==
    hashed.op = "HashZip" /\ ignore = <<>>
        => hashed.err = Nil /\ hashed.digest = Hash1(files, OsOpen).digest

\* C17: a step of Init, Refresh, Lookup or Changed calls neither Execute nor
\* Kill nor the container client, and leaves the recorded pid, the containers
\* and the state as they were; Lookup returns no ids and no error.
C17_ReadOnlyOperations ==
    [][op' \in {"Init", "Refresh", "Lookup", "Changed"}
          => /\ calls' = <<>>
             /\ kills' = <<>>
             /\ lastExec' = NoExec
             /\ cfg'.PID = cfg.PID
             /\ containers' = containers
             /\ state' = state
             /\ op' = "Lookup" => ret'.err = Nil /\ ret'.ids = <<>>]_vars

C17_Witness ==
    /\ op = "Lookup"
    /\ prev.op = "Create"
    /\ ~prev.failed
    /\ cfg.PID > 0
    /\ ret.ids = <<>>

\* C18: once a foreground Execute with a positive timeout has returned the
\* timeout error, its goroutine is not at a send on doneCh, which nothing
\* receives from any more.
C18_GoroutineNotLeftSending ==
    (ExecuteReturned /\ timeout > 0 /\ Foreground /\ retErr = ErrorCommandTimeout)
        => gpc \notin {"sendStartErr", "sendQueryErr", "sendFinal"}

\* C19: when Create or Destroy has returned, no container that Create made for
\* a remote exec is left.
C19_NoContainerLeft ==
    op \in {"Create", "Destroy"} => containers = {}

\* Whether the resource runs on this machine: neither Image nor Target is set.
IsLocal(c) == ~c.Image /\ ~c.Target

\* C20: when Create has returned, the recorded pid is the pid Execute returned
\* if the exec is local and Create succeeded, and the pid recorded before in
\* every other case: a remote exec, a failure before Execute, and any error of
\* Execute, which Create returns as an error. A Destroy that follows a failed
\* Create kills the pid recorded before that Create, or nothing.
C20_PidFollowsLocalSuccess ==
    /\ op = "Create"
          => /\ lastExec.err \notin {Nil, "not called"} => ret.err # Nil
             /\ cfg.PID = IF IsLocal(cfg) /\ ret.err = Nil THEN lastExec.pid ELSE before
             /\ IsLocal(cfg) /\ ret.err = Nil => lastExec.err = Nil
    /\ op = "Destroy" /\ prev.op = "Create" /\ prev.failed
          => kills \in {<<>>, <<prev.before>>}

C20_Witness ==
    /\ op = "Create"
    /\ cfg.Daemon
    /\ lastExec.err = ErrorCommandTimeout
    /\ lastExec.pid > 0
    /\ before > 0
    /\ lastExec.pid # before
    /\ cfg.PID = before
    /\ ret.err # Nil

\* The names of the client calls an operation made.
Called == {calls[i].fn : i \in 1..Len(calls)}

\* C21: a Create of a resource with a Target, with or without an Image, pulls
\* no image, creates and removes no container and leaves the containers as
\* they were; when FindContainerIDs fails or returns no id or several, Create
\* returns an error and ExecuteScript is not called.
C21_TargetNeverOwnsContainer ==
    [][op' = "Create" /\ cfg.Target
          => /\ Called' \cap {"PullImage", "CreateContainer", "RemoveContainer"} = {}
             /\ containers' = containers
             /\ "FindContainerIDs" \in Called'
             /\ found'.err # Nil \/ Len(found'.ids) # 1
                   => ret'.err # Nil /\ "ExecuteScript" \notin Called']_vars

C21_Witness ==
    /\ op = "Create"
    /\ cfg.Target
    /\ cfg.Image
    /\ found.err = Nil
    /\ Len(found.ids) = 2
    /\ ret.err # Nil
    /\ calls = <<Call("FindContainerIDs", "")>>

\* The files of the tree the walk has visited.
VisitedFiles == DOMAIN tree \ {todo[i].rel : i \in 1..Len(todo)}

\* C22: a file the walk has visited is listed unless its own path matches an
\* ignore glob or a directory above it is matched by one.
C22_OnlyIgnoredFilesExcluded ==
    \A f \in VisitedFiles :
        /\ ~Ignored(WalkPath(dir, f))
        /\ \A n \in 0..(Len(f) - 1) : ~IgnoredDirectory(SubSeq(f, 1, n))
        => ListName(f) \in Listed

====
